---- MODULE Spec2Model ----
(***************************************************************************)
(* Model of @carbonteq/refined-type (src/src/index.ts).                    *)
(*                                                                         *)
(* createRefinedType(tag, schema, errConst?) brands a zod/v4 schema and    *)
(* attaches create / $infer / $inferPrimitive / primitive onto it with     *)
(* Object.assign.  The model keeps a heap of schema objects (so that the   *)
(* aliasing done by Object.assign is visible), the closures created by     *)
(* each constructor call, the descriptors handed back to the caller and    *)
(* the record of the last call made.                                       *)
(***************************************************************************)
EXTENDS Integers, Sequences, FiniteSets, TLC

(***************************************************************************)
(* Bounds of the model.                                                    *)
(***************************************************************************)
\* number of rule (schema) objects the caller has built
MaxObjs == 3
\* number of createRefinedType calls
MaxDescs == 2

(***************************************************************************)
(* Runtime values.  Every value is a record of the same shape so that any  *)
(* two values can be compared: type is the JavaScript typeof-like kind,    *)
(* chars the characters of a string, num the number.                       *)
(***************************************************************************)
Str(cs) == [type |-> "string", chars |-> cs, num |-> 0]

Num(n) == [type |-> "number", chars |-> <<>>, num |-> n]

Null == [type |-> "null", chars |-> <<>>, num |-> 0]

Undefined == [type |-> "undefined", chars |-> <<>>, num |-> 0]

\* the inputs handed to create and primitive
Inputs ==
  { Str(<<"t", "e", "s", "t", "@", "d", "e", "v", ".", "c", "o", "m">>),
    Str(<<"t", "e", "s", "t", "d", "e", "v", ".", "c", "o", "m">>),
    Str(<<>>), Num(5), Num(0 - 5), Null, Undefined }

\* the tags handed to createRefinedType
Tags == {"Email", "PositiveNumber"}

\* the error transformers handed to createRefinedType; "none" is the
\* omitted argument
ErrConsts == {"none", "valueOf"}

(***************************************************************************)
(* String helpers of the validation engine and of template literals.       *)
(***************************************************************************)
RECURSIVE Join(_)
Join(cs) == IF cs = <<>> THEN "" ELSE Head(cs) \o Join(Tail(cs))

Positions(cs, c) == {i \in 1..Len(cs) : cs[i] = c}

\* the shape z.email() accepts: one "@", a non-empty local part, a domain
\* with an inner "." and a top-level part of at least two letters
IsEmail(cs) ==
  /\ Cardinality(Positions(cs, "@")) = 1
  /\ Positions(cs, " ") = {}
  /\ LET at == CHOOSE i \in Positions(cs, "@") : TRUE
         dots == {i \in Positions(cs, ".") : i > at}
     IN /\ at > 1
        /\ cs[1] # "."
        /\ cs[at - 1] # "."
        /\ dots # {}
        /\ \A i \in dots : i > at + 1 /\ i + 2 <= Len(cs) /\ cs[i - 1] # "."
        /\ cs[Len(cs)] # "." /\ cs[Len(cs) - 1] # "."

\* String(v), as a template literal `${v}` renders it
Show(v) ==
  CASE v.type = "string" -> Join(v.chars)
    [] v.type = "number" -> ToString(v.num)
    [] v.type = "null" -> "null"
    [] OTHER -> "undefined"

(***************************************************************************)
(* The validation engine (zod/v4), consumed through safeParse and          *)
(* prettifyError.  A rule kind stands for one schema expression.           *)
(***************************************************************************)
\* "email"    z.email()
\* "positive" z.number().positive()
\* "length"   z.string().transform((s) => s.length)
Kinds == <<"email", "positive", "length">>

\* the type a rule kind expects of its input
Expected(kind) == IF kind = "positive" THEN "number" ELSE "string"

\* one issue of a $ZodError; message is the text the engine gives the issue
Issue(code, expected, received) ==
  [code |-> code, expected |-> expected, received |-> received,
   message |->
     CASE code = "invalid_type" ->
            "Invalid input: expected " \o expected \o ", received " \o received
       [] code = "invalid_format" -> "Invalid " \o expected \o " address"
       [] OTHER -> "Too small: expected " \o expected \o " to be >0"]

\* the $ZodError of a parse that produced no error
NoIssues == <<>>

ParseOk(v) == [success |-> TRUE, data |-> v, error |-> NoIssues]

ParseFail(issues) == [success |-> FALSE, data |-> Undefined, error |-> issues]

\* schema.safeParse(data) for a schema of the given kind
SafeParse(kind, data) ==
  IF data.type # Expected(kind)
    THEN ParseFail(<<Issue("invalid_type", Expected(kind), data.type)>>)
    ELSE CASE kind = "email" ->
                IF IsEmail(data.chars)
                  THEN ParseOk(data)
                  ELSE ParseFail(<<Issue("invalid_format", "email", "string")>>)
           [] kind = "positive" ->
                IF data.num > 0
                  THEN ParseOk(data)
                  ELSE ParseFail(<<Issue("too_small", "number", "number")>>)
           [] OTHER -> ParseOk(Num(Len(data.chars)))

\* z.core.prettifyError(err): one "x message" line per issue, joined by "\n"
RECURSIVE PrettifyError(_)
PrettifyError(err) ==
  IF err = <<>>
    THEN ""
    ELSE "x " \o Head(err).message
         \o (IF Tail(err) = <<>> THEN "" ELSE "\n" \o PrettifyError(Tail(err)))

(***************************************************************************)
(* Error values and error transformers.                                    *)
(***************************************************************************)
\* the error slot of an outcome that carries no error
NoError == [name |-> "", message |-> "", zodError |-> NoIssues]

\* RefinedValidationError as it would be if the constructor dropped the
\* diagnostics it was given
RefinedValidationError_dropsDiagnostics(err) ==
  [name |-> "RefinedValidationError", message |-> PrettifyError(err),
   zodError |-> NoIssues]

\* new RefinedValidationError(err)
RefinedValidationError(err) ==
  [name |-> "RefinedValidationError", message |-> PrettifyError(err),
   zodError |-> err]

\* (_data, err) => new RefinedValidationError(err)
defaultFromZodErr(data, err) ==
  [returned |-> TRUE, value |-> RefinedValidationError(err)]

\* a custom error whose message embeds the offending value, built as
\* `<${data.valueOf()}> must be one of ...`: reading a property of null or
\* undefined raises a TypeError
ValueOfTransformer(data, err) ==
  IF data.type \in {"null", "undefined"}
    THEN [returned |-> FALSE,
          value |-> [name |-> "TypeError",
                     message |-> "Cannot read properties of " \o Show(data),
                     zodError |-> NoIssues]]
    ELSE [returned |-> TRUE,
          value |-> [name |-> "EnumValidationError",
                     message |-> "<" \o Show(data) \o "> must be one of",
                     zodError |-> err]]

\* calling the transformer function named tr
ApplyTransformer(tr, data, err) ==
  IF tr = "default"
    THEN defaultFromZodErr(data, err)
    ELSE ValueOfTransformer(data, err)

(***************************************************************************)
(* Outcomes of a call: a Result variant, or an exception that escaped.     *)
(***************************************************************************)
\* Result.Ok(v)
ResultOk(v) == [variant |-> "Ok", val |-> v, err |-> NoError]

\* Result.Err(e)
ResultErr(e) == [variant |-> "Err", val |-> Undefined, err |-> e]

\* the call raised e instead of returning
Raised(e) == [variant |-> "Throw", val |-> Undefined, err |-> e]

\* a plain return value (primitive)
Returned(v) == [variant |-> "Return", val |-> v, err |-> NoError]

(***************************************************************************)
(* State.                                                                  *)
(***************************************************************************)
VARIABLES
  heap,      \* the schema objects: kind plus the properties assigned onto them
  closures,  \* the factory closures: captured branded schema and transformer
  descs,     \* the createRefinedType calls made: arguments and returned object
  last       \* the last call made and what it gave

vars == <<heap, closures, descs, last>>

Objs == 1..MaxObjs

\* a schema object as the caller built it: no property of the descriptor
\* surface is present (create = 0 is an absent property)
FreshSchema(kind) ==
  [kind |-> kind, create |-> 0, infer |-> "", inferPrimitive |-> "",
   primitive |-> FALSE]

\* the rule kind of the i-th schema object the caller built
KindOf(i) == Kinds[((i - 1) % Len(Kinds)) + 1]

NoCall ==
  [op |-> "none", desc |-> 0, input |-> Undefined, origin |-> Undefined,
   chained |-> FALSE, outcome |-> Returned(Undefined), calls |-> <<>>]

Init ==
  /\ heap = [i \in Objs |-> FreshSchema(KindOf(i))]
  /\ closures = <<>>
  /\ descs = <<>>
  /\ last = NoCall

(***************************************************************************)
(* createRefinedType                                                       *)
(***************************************************************************)
\* schema.brand<Tag>(): zod/v4 returns the receiver itself
Brand(schema) == schema

\* Object.assign(original, extensions) on the heap object original
extend(original, extensions) ==
  [heap EXCEPT ![original] =
     [kind |-> @.kind, create |-> extensions.create, infer |-> extensions.infer,
      inferPrimitive |-> extensions.inferPrimitive,
      primitive |-> extensions.primitive]]

\* errConst ?? defaultFromZodErr
ErrTransformerOf(errConst) == IF errConst = "none" THEN "default" ELSE errConst

\* factory as it would be if the transformer were handed the parse's data
\* instead of the raw input
factory_parsedArgument(clo, data) ==
  LET res == SafeParse(heap[clo.branded].kind, data)
  IN IF res.success
       THEN [outcome |-> ResultOk(res.data), calls |-> <<>>]
       ELSE LET ret == ApplyTransformer(clo.errTransformer, res.data, res.error)
            IN [outcome |-> IF ret.returned THEN ResultErr(ret.value)
                                            ELSE Raised(ret.value),
                calls |-> <<[tr |-> clo.errTransformer, data |-> res.data,
                             err |-> res.error, ret |-> ret]>>]

\* factory as it would be if Success wrapped a property the parse result
\* does not have (undefined) instead of res.data
factory_wrongProperty(clo, data) ==
  LET res == SafeParse(heap[clo.branded].kind, data)
  IN IF res.success
       THEN [outcome |-> ResultOk(Undefined), calls |-> <<>>]
       ELSE LET ret == ApplyTransformer(clo.errTransformer, data, res.error)
            IN [outcome |-> IF ret.returned THEN ResultErr(ret.value)
                                            ELSE Raised(ret.value),
                calls |-> <<[tr |-> clo.errTransformer, data |-> data,
                             err |-> res.error, ret |-> ret]>>]

\* factory as it would be if the branded schema and the transformer were
\* kept in module-level variables, overwritten by each createRefinedType
factory_moduleLevel(clo, data) ==
  LET shared == closures[Len(closures)]
      res == SafeParse(heap[shared.branded].kind, data)
  IN IF res.success
       THEN [outcome |-> ResultOk(res.data), calls |-> <<>>]
       ELSE LET ret == ApplyTransformer(shared.errTransformer, data, res.error)
            IN [outcome |-> IF ret.returned THEN ResultErr(ret.value)
                                            ELSE Raised(ret.value),
                calls |-> <<[tr |-> shared.errTransformer, data |-> data,
                             err |-> res.error, ret |-> ret]>>]

\* factory as it would be if Success wrapped the raw input instead of the
\* value the parse produced
factory_echoesInput(clo, data) ==
  LET res == SafeParse(heap[clo.branded].kind, data)
  IN IF res.success
       THEN [outcome |-> ResultOk(data), calls |-> <<>>]
       ELSE LET ret == ApplyTransformer(clo.errTransformer, data, res.error)
            IN [outcome |-> IF ret.returned THEN ResultErr(ret.value)
                                            ELSE Raised(ret.value),
                calls |-> <<[tr |-> clo.errTransformer, data |-> data,
                             err |-> res.error, ret |-> ret]>>]

\* the factory closure clo applied to data: the Result (or the exception
\* that escapes) and the transformer invocations made on the way
factory(clo, data) ==
  LET res == SafeParse(heap[clo.branded].kind, data)
  IN IF res.success
       THEN [outcome |-> ResultOk(res.data), calls |-> <<>>]
       ELSE LET ret == ApplyTransformer(clo.errTransformer, data, res.error)
            IN [outcome |-> IF ret.returned THEN ResultErr(ret.value)
                                            ELSE Raised(ret.value),
                calls |-> <<[tr |-> clo.errTransformer, data |-> data,
                             err |-> res.error, ret |-> ret]>>]

\* primitive as it would be without its return statement
primitive_noReturn(branded) == Undefined

\* primitive(branded) { return branded; }
primitive(branded) == branded

createRefinedType(tag, schema, errConst) ==
  /\ Len(descs) < MaxDescs
  /\ LET errTransformer == ErrTransformerOf(errConst)
         branded == Brand(schema)
         clo == Len(closures) + 1
         extensions == [create |-> clo, infer |-> tag, inferPrimitive |-> tag,
                        primitive |-> TRUE]
     IN /\ closures' = Append(closures, [branded |-> branded,
                                         errTransformer |-> errTransformer])
        /\ heap' = extend(branded, extensions)
        /\ descs' = Append(descs, [ref |-> branded, tag |-> tag,
                                   schema |-> schema, errConst |-> errConst])
        /\ last' = [NoCall EXCEPT !.op = "createRefinedType",
                                  !.desc = Len(descs) + 1]

(***************************************************************************)
(* Calls on a descriptor the caller holds.                                 *)
(***************************************************************************)
\* the value the last call handed back, when it was a Success of descriptor d
Refined(d) ==
  IF last.op = "create" /\ last.desc = d /\ last.outcome.variant = "Ok"
    THEN {last.outcome.val}
    ELSE {}

\* D.create(data), D being the d-th descriptor returned; data is a raw input
\* or (chained) the refined value the previous create on D returned
\* create is synchronous and has no suspension point, so a call is one step
\* and concurrent callers are the interleavings of such steps
Create(d, data, chained) ==
  LET res == factory(closures[heap[descs[d].ref].create], data)
  IN /\ last' = [op |-> "create", desc |-> d, input |-> data,
                 origin |-> IF chained THEN last.input ELSE data,
                 chained |-> chained, outcome |-> res.outcome,
                 calls |-> res.calls]
     /\ UNCHANGED <<heap, closures, descs>>

\* D.primitive(branded)
Primitive(d, branded, chained) ==
  /\ heap[descs[d].ref].primitive
  /\ last' = [op |-> "primitive", desc |-> d, input |-> branded,
              origin |-> IF chained THEN last.input ELSE branded,
              chained |-> chained, outcome |-> Returned(primitive(branded)),
              calls |-> <<>>]
  /\ UNCHANGED <<heap, closures, descs>>

\* the parse of the schema object ref: the descriptor returned is the
\* branded schema with the extensions assigned onto it, so it still has the
\* schema's own safeParse
safeParse(ref, data) == SafeParse(heap[ref].kind, data)

\* a safeParse result as the outcome of a call
ParseOutcome(res) ==
  IF res.success
    THEN [variant |-> "Parsed", val |-> res.data, err |-> NoError]
    ELSE [variant |-> "Rejected", val |-> Undefined,
          err |-> [name |-> "ZodError", message |-> PrettifyError(res.error),
                   zodError |-> res.error]]

\* D.safeParse(data): the descriptor used as the rule it is
Parse(d, data) ==
  /\ last' = [op |-> "safeParse", desc |-> d, input |-> data,
              origin |-> data, chained |-> FALSE,
              outcome |-> ParseOutcome(safeParse(descs[d].ref, data)),
              calls |-> <<>>]
  /\ UNCHANGED <<heap, closures, descs>>

Construct ==
  \E tag \in Tags, schema \in Objs, errConst \in ErrConsts :
    createRefinedType(tag, schema, errConst)

CallCreate ==
  \E d \in 1..Len(descs) :
    \/ \E data \in Inputs : Create(d, data, FALSE)
    \/ \E data \in Refined(d) : Create(d, data, TRUE)

CallPrimitive ==
  \E d \in 1..Len(descs) :
    \/ \E v \in Inputs : Primitive(d, v, FALSE)
    \/ \E v \in Refined(d) : Primitive(d, v, TRUE)

CallParse == \E d \in 1..Len(descs), data \in Inputs : Parse(d, data)

Next == Construct \/ CallCreate \/ CallPrimitive \/ CallParse

Spec == Init /\ [][Next]_vars

(***************************************************************************)
(* Vocabulary of the properties.                                           *)
(***************************************************************************)
Descs == 1..Len(descs)

\* the closure behind D.create now, D being the d-th descriptor returned
Installed(d) == closures[heap[descs[d].ref].create]

\* the parse of the rule descriptor d was built from
RuleParse(d, x) == SafeParse(heap[descs[d].schema].kind, x)

\* what create gives for a descriptor built from a rule of this kind with
\* this errConst, taken on its own
SoloOutcome(kind, errConst, x) ==
  LET res == SafeParse(kind, x)
      ret == ApplyTransformer(ErrTransformerOf(errConst), x, res.error)
  IN IF res.success THEN ResultOk(res.data)
     ELSE IF ret.returned THEN ResultErr(ret.value) ELSE Raised(ret.value)

\* what D.create(x) gave right after descriptor d was constructed
AsBuilt(d, x) ==
  SoloOutcome(heap[descs[d].schema].kind, descs[d].errConst, x)

\* no other descriptor was built from the rule object of descriptor d
Unshared(d) == \A e \in Descs \ {d} : descs[e].schema # descs[d].schema

\* the rule of descriptor d maps every value it produces to itself
Idempotent(d) ==
  \A y \in Inputs :
    LET r == RuleParse(d, y)
    IN r.success => RuleParse(d, r.data) = ParseOk(r.data)

(***************************************************************************)
(* C1: totality of create.                                                 *)
(***************************************************************************)
\* C1: every create call returns a Result variant, Success or Failure, and
\* never raises.
C1_CreateIsTotal ==
  last.op = "create" => last.outcome.variant \in {"Ok", "Err"}

(***************************************************************************)
(* C2: accept/reject correspondence of create.                             *)
(***************************************************************************)
\* C2: create(x) is a Success exactly when the rule's parse accepts x, it
\* then wraps the very value the parse produced, and create(x) is a Failure
\* exactly when the rule's parse rejects x.
C2_AcceptRejectCorrespondence ==
  last.op = "create" =>
    LET res == RuleParse(last.desc, last.input)
    IN /\ (last.outcome.variant = "Ok") <=> res.success
       /\ last.outcome.variant = "Ok" => last.outcome.val = res.data
       /\ (last.outcome.variant = "Err") <=> ~res.success

(***************************************************************************)
(* C3: failure path of create.                                             *)
(***************************************************************************)
\* C3: when the rule rejects x with diagnostics d the installed transformer
\* is invoked exactly once, with the raw input x and d, and the Failure
\* returned wraps exactly what that invocation returned; when the rule
\* accepts, the transformer is not invoked at all.
C3_FailurePath ==
  last.op = "create" =>
    LET res == RuleParse(last.desc, last.input)
    IN IF res.success
         THEN last.calls = <<>>
         ELSE /\ Len(last.calls) = 1
              /\ last.calls[1].tr = Installed(last.desc).errTransformer
              /\ last.calls[1].data = last.input
              /\ last.calls[1].err = res.error
              /\ last.calls[1].ret.returned =>
                   last.outcome = ResultErr(last.calls[1].ret.value)
              /\ last.outcome.variant = "Err" =>
                   /\ last.calls[1].ret.returned
                   /\ last.outcome.err = last.calls[1].ret.value

\* a Failure built by a custom transformer from a rejected raw input
C3_Witness ==
  /\ last.op = "create"
  /\ last.outcome.variant = "Err"
  /\ Len(last.calls) = 1
  /\ last.calls[1].tr = "valueOf"
  /\ last.input = Num(0 - 5)

(***************************************************************************)
(* C4: default versus custom error.                                        *)
(***************************************************************************)
\* C4: of two descriptors built with the same rule and the same tag, one
\* without and one with a custom transformer, in either order, the first
\* gives a Failure holding a RefinedValidationError and the second a Failure
\* holding the custom error for the same invalid input, both carrying the
\* same diagnostics.  (Stated for the inputs the custom transformer returns
\* an error for, so that it does not rest on C1.)
C4_DefaultVersusCustom ==
  \A a, b \in Descs :
    ( /\ descs[a].schema = descs[b].schema
      /\ descs[a].tag = descs[b].tag
      /\ descs[a].errConst = "none"
      /\ descs[b].errConst # "none" ) =>
      \A x \in Inputs :
        (~RuleParse(a, x).success /\ x.type \notin {"null", "undefined"}) =>
          LET ra == factory(Installed(a), x).outcome
              rb == factory(Installed(b), x).outcome
          IN /\ ra.variant = "Err"
             /\ ra.err.name = "RefinedValidationError"
             /\ rb.variant = "Err"
             /\ rb.err.name = "EnumValidationError"
             /\ ra.err.zodError = rb.err.zodError
             /\ ra.err.zodError = RuleParse(a, x).error

(***************************************************************************)
(* C5: descriptor immutability.                                            *)
(***************************************************************************)
\* C5: every descriptor returned keeps the rule, the tag markers and the
\* transformer it was constructed with, whatever calls came later, so its
\* create gives for every input what it gave right after construction.
C5_DescriptorImmutable ==
  \A d \in Descs :
    /\ heap[descs[d].ref].infer = descs[d].tag
    /\ heap[descs[d].ref].inferPrimitive = descs[d].tag
    /\ Installed(d).branded = descs[d].schema
    /\ Installed(d).errTransformer = ErrTransformerOf(descs[d].errConst)
    /\ \A x \in Inputs : factory(Installed(d), x).outcome = AsBuilt(d, x)

(***************************************************************************)
(* C6: frame of the constructor.                                           *)
(***************************************************************************)
\* C6: a createRefinedType call changes no object that existed before it,
\* the caller's rule object included: no property is added or overwritten.
C6_ConstructorFrame ==
  [][descs' # descs => heap' = heap]_vars

(***************************************************************************)
(* C7: re-validation of a refined value.                                   *)
(***************************************************************************)
\* C7 as stated: whenever create(x) was a Success wrapping v, create(v) is a
\* Success wrapping v.
C7_Revalidates ==
  (last.op = "create" /\ last.chained) => last.outcome = ResultOk(last.input)

\* C7 as amended: for a descriptor whose rule maps every value it produces
\* to itself, whenever create(x) was a Success wrapping v, create(v) is a
\* Success wrapping v.
C7_RevalidatesIdempotentRule ==
  (last.op = "create" /\ last.chained /\ Idempotent(last.desc)) =>
    last.outcome = ResultOk(last.input)

\* a refined email re-validated by the descriptor that produced it
C7_Witness ==
  /\ last.op = "create"
  /\ last.chained
  /\ Idempotent(last.desc)
  /\ last.input.type = "string"
  /\ last.outcome.variant = "Ok"

(***************************************************************************)
(* C8: round trip through primitive.                                       *)
(***************************************************************************)
\* C8: primitive returns its argument itself, checked or not; applied to
\* the v of a Success create(x) it returns the value the rule's parse
\* produces from x.
C8_RoundTrip ==
  last.op = "primitive" =>
    /\ last.outcome = Returned(last.input)
    /\ last.chained =>
         /\ RuleParse(last.desc, last.origin).success
         /\ last.outcome.val = RuleParse(last.desc, last.origin).data

\* primitive applied to a refined value the rule canonicalized: the length
\* of the string that was the raw input
C8_Witness ==
  /\ last.op = "primitive"
  /\ last.chained
  /\ last.origin.type = "string"
  /\ last.outcome.val = Num(Len(last.origin.chars))

C10_Independence ==
  [][last'.op = "create" =>
       /\ heap' = heap
       /\ closures' = closures
       /\ descs' = descs
       /\ Unshared(last'.desc) =>
            last'.outcome = AsBuilt(last'.desc, last'.input)]_vars

\* a create call on the first of two descriptors built from different rule
\* objects, made after the second was built and called
C10_Witness ==
  /\ Len(descs) = 2
  /\ descs[1].schema # descs[2].schema
  /\ descs[1].errConst # descs[2].errConst
  /\ last.op = "create"
  /\ last.desc = 1
  /\ last.outcome.variant = "Err"

(***************************************************************************)
(* C11: the descriptor is still a validation rule.                         *)
(***************************************************************************)
\* C11: the descriptor returned can be parsed with like any rule, and for
\* every input parsing with the descriptor accepts exactly when its create
\* is a Success, the two producing the same value.
C11_DescriptorIsRule ==
  /\ last.op = "safeParse" =>
       LET c == factory(Installed(last.desc), last.input).outcome
       IN /\ (last.outcome.variant = "Parsed") <=> (c.variant = "Ok")
          /\ last.outcome.variant = "Parsed" => c.val = last.outcome.val
  /\ last.op = "create" =>
       LET r == safeParse(descs[last.desc].ref, last.input)
       IN /\ (last.outcome.variant = "Ok") <=> r.success
          /\ last.outcome.variant = "Ok" => last.outcome.val = r.data

\* a string parsed with a descriptor whose rule turns it into its length
C11_Witness ==
  /\ last.op = "safeParse"
  /\ last.outcome.variant = "Parsed"
  /\ last.input.type = "string"
  /\ last.outcome.val = Num(Len(last.input.chars))

====
